---- MODULE Spec2Model ----
(***************************************************************************)
(* Model of watchpuppy.py: a bidirectional directory synchroniser.  Two    *)
(* directory trees (dir1, dir2) are reconciled at startup by initial_sync  *)
(* in both directions and then kept in step by BidirectionalSyncHandler,   *)
(* which mirrors every filesystem notification onto the opposite root.     *)
(* Every filesystem mutation goes through retry_on_error.                  *)
(***************************************************************************)
EXTENDS Integers, Sequences, FiniteSets, TLC

VARIABLES
    roots,      \* <<dir1, dir2>>: the two root path strings (character sequences)
    fs,         \* fs[r]: the tree under root r, a function from the relative
                \* paths that exist (<<>> is the root itself) to their entries
    pc,         \* position of the main thread: "sync1", "sync2", "watching" in
                \* sync_directories; "retry" when a single retry_on_error
                \* call is looked at
    queue,      \* queue[r]: notifications the observer of root r has not yet
                \* dispatched to the handler (FIFO)
    budget,     \* number of external filesystem changes still to come
    last,       \* what the most recent step did: the retry_on_error calls it
                \* made and their outcomes, and the trees before it (history)
    boot,       \* the trees the program was started on, the initial_sync
                \* passes run so far, and whether a call of a startup pass
                \* exhausted its retries (history)
    rt,         \* a retry_on_error call on its own: its arguments and result
    sup         \* the process around sync_directories: the two observers'
                \* threads, what was printed, the interrupt and the handler
                \* runs that were in flight when it came (history)

vars == <<roots, fs, pc, queue, budget, last, boot, rt, sup>>

(***************************************************************************)
(* Bounds of the model.                                                    *)
(***************************************************************************)
MaxTime == 2        \* modification times are 1..MaxTime
MaxExt == 1         \* external changes per run of the watch phase
MaxTries == 3       \* max_attempts arguments explored for retry_on_error

\* retry_on_error's default for max_attempts, used by every call site.
DEFAULT_MAX_ATTEMPTS == 5

(***************************************************************************)
(* Names.  A base name is a string; Chars gives its characters so that     *)
(* the ignore patterns can be matched against it.                          *)
(***************************************************************************)
DirNames == {"x"}
FileNames == {"a.txt", "b.tmp"}
Names == DirNames \cup FileNames

Chars(n) ==
    CASE n = "x" -> <<"x">>
      [] n = "a.txt" -> <<"a", ".", "t", "x", "t">>
      [] n = "b.tmp" -> <<"b", ".", "t", "m", "p">>
      [] n = "." -> <<".">>
      [] OTHER -> <<>>

IsPrefixSeq(p, s) == Len(p) <= Len(s) /\ SubSeq(s, 1, Len(p)) = p
IsSuffixSeq(p, s) == Len(p) <= Len(s) /\ SubSeq(s, Len(s) - Len(p) + 1, Len(s)) = p

\* Each pattern is matched by re.match (anchored at the start) and ends in $:
\* a literal prefix, then ".*", then one of the literal suffixes.
IGNORE_PATTERNS ==
    << [pre |-> <<>>, suf |-> {<<".", "c", "r", "d", "o", "w", "n", "l", "o", "a", "d">>}],
       [pre |-> <<>>, suf |-> {<<".", "p", "a", "r", "t">>}],
       [pre |-> <<>>, suf |-> {<<".", "t", "e", "m", "p">>}],
       [pre |-> <<>>, suf |-> {<<".", "t", "m", "p">>}],
       [pre |-> <<"~", "$">>, suf |-> {<<".", "d", "o", "c">>, <<".", "d", "o", "c", "x">>,
                                       <<".", "x", "l", "s">>, <<".", "x", "l", "s", "x">>}],
       [pre |-> <<".">>, suf |-> {<<".", "s", "w", "p">>}],
       [pre |-> <<>>, suf |-> {<<".", "D", "S", "_", "S", "t", "o", "r", "e">>}] >>

ReMatch(pat, s) ==
    /\ IsPrefixSeq(pat.pre, s)
    /\ \E e \in pat.suf : IsSuffixSeq(e, s) /\ Len(pat.pre) + Len(e) <= Len(s)

(***************************************************************************)
(* Paths are sequences of names relative to a root; <<>> is the root.      *)
(***************************************************************************)
Parent(p) == SubSeq(p, 1, Len(p) - 1)
BaseName(p) == IF p = <<>> THEN "." ELSE p[Len(p)]
Under(p, q) == IsPrefixSeq(p, q)          \* q is p or lies below p

should_ignore_never(p) == FALSE
should_ignore(p) ==
    \E i \in 1..Len(IGNORE_PATTERNS) : ReMatch(IGNORE_PATTERNS[i], Chars(BaseName(p)))

(***************************************************************************)
(* The filesystem.  An entry is a directory or a file with a modification  *)
(* time and a content.  Each operation returns [ok, F, touched]: whether   *)
(* it completed (FALSE: it raised an OSError and changed nothing), the     *)
(* resulting trees, and the paths it created, overwrote or removed.        *)
(***************************************************************************)
DirEntry == [kind |-> "dir", mtime |-> 0, data |-> 0]
FileEntry(m, d) == [kind |-> "file", mtime |-> m, data |-> d]

Exists(F, r, p) == p \in DOMAIN F[r]
IsDir(F, r, p) == Exists(F, r, p) /\ F[r][p].kind = "dir"
IsFile(F, r, p) == Exists(F, r, p) /\ F[r][p].kind = "file"
Subtree(F, r, p) == {q \in DOMAIN F[r] : Under(p, q)}
Ancestors(p) == {SubSeq(p, 1, i) : i \in 0..Len(p)}

Raised(F) == [ok |-> FALSE, F |-> F, touched |-> {}]
Done(F, r, t, touched) == [ok |-> TRUE, F |-> [F EXCEPT ![r] = t], touched |-> touched]

\* os.makedirs(path, exist_ok=True)
makedirs(F, r, p) ==
    IF \E a \in Ancestors(p) : Exists(F, r, a) /\ ~IsDir(F, r, a)
    THEN Raised(F)
    ELSE LET new == Ancestors(p) \ DOMAIN F[r]
         IN  Done(F, r, [q \in DOMAIN F[r] \cup new |->
                            IF q \in new THEN DirEntry ELSE F[r][q]], new)

\* The entry shutil.copy2 writes: content and metadata of the source.
CopiedEntryNoStat(e) == FileEntry(MaxTime, e.data)
CopiedEntry(e) == e

\* shutil.copy2(src, dst): src is rs/ps, dst is rd/pd
copy2(F, rs, ps, rd, pd) ==
    LET dst == IF IsDir(F, rd, pd) THEN Append(pd, BaseName(ps)) ELSE pd
    IN  IF \/ ~IsFile(F, rs, ps)
           \/ (rs = rd /\ ps = dst)                 \* SameFileError
           \/ ~IsDir(F, rd, Parent(dst))
           \/ IsDir(F, rd, dst)
        THEN Raised(F)
        ELSE Done(F, rd, [q \in DOMAIN F[rd] \cup {dst} |->
                            IF q = dst THEN CopiedEntry(F[rs][ps]) ELSE F[rd][q]], {dst})

\* os.remove(path)
remove(F, r, p) ==
    IF ~IsFile(F, r, p)
    THEN Raised(F)
    ELSE Done(F, r, [q \in DOMAIN F[r] \ {p} |-> F[r][q]], {p})

\* shutil.rmtree(path)
rmtree(F, r, p) ==
    IF ~IsDir(F, r, p)
    THEN Raised(F)
    ELSE Done(F, r, [q \in DOMAIN F[r] \ Subtree(F, r, p) |-> F[r][q]], Subtree(F, r, p))

\* shutil.move(src, dst) inside root r: into dst when dst is a directory,
\* else a rename onto dst.
move(F, r, src, dst) ==
    LET real == IF IsDir(F, r, dst) THEN Append(dst, BaseName(src)) ELSE dst
        old == Subtree(F, r, src)
        Moved(q) == real \o SubSeq(q, Len(src) + 1, Len(q))
        new == {Moved(q) : q \in old}
    IN  IF \/ ~Exists(F, r, src)
           \/ src = <<>>
           \/ (IsDir(F, r, dst) /\ Exists(F, r, real))   \* "already exists"
           \/ ~IsDir(F, r, Parent(real))
           \/ Under(src, real)                            \* into itself
           \/ (IsDir(F, r, src) /\ Exists(F, r, real))
        THEN Raised(F)
        ELSE Done(F, r, [q \in (DOMAIN F[r] \ old) \cup new |->
                            IF q \in new
                            THEN F[r][src \o SubSeq(q, Len(real) + 1, Len(q))]
                            ELSE F[r][q]], old \cup new)

\* The mutation a call site hands to retry_on_error, applied once.
Apply(c, F) ==
    CASE c.fn = "makedirs" -> makedirs(F, c.root, c.path)
      [] c.fn = "copy2" -> copy2(F, c.from, c.src, c.root, c.path)
      [] c.fn = "remove" -> remove(F, c.root, c.path)
      [] c.fn = "rmtree" -> rmtree(F, c.root, c.path)
      [] c.fn = "move" -> move(F, c.root, c.src, c.path)

Funcs == {"makedirs", "copy2", "remove", "rmtree", "move"}
MkCall(fn, from, src, root, path) ==
    [fn |-> fn, from |-> from, src |-> src, root |-> root, path |-> path]

(***************************************************************************)
(* retry_on_error.  The attempts of one call are scripted: script[i] is    *)
(* what the i-th call of func does: "ok", "oserror" (PermissionError or    *)
(* OSError) or "other" (any exception the except clause does not catch).   *)
(* Values are "path" (a non-empty string), "None" and "False".             *)
(***************************************************************************)
Outcomes == {"ok", "oserror", "other"}

\* What func returns when it completes: shutil.copy2 and shutil.move return
\* the destination path, os.makedirs, os.remove and shutil.rmtree None.
FuncReturn(fn) == IF fn \in {"copy2", "move"} THEN "path" ELSE "None"
Truthy(v) == v = "path"

IsLastAttemptNever(attempt, max_attempts) == attempt = max_attempts
IsLastAttempt(attempt, max_attempts) == attempt = max_attempts - 1

RECURSIVE retry_from(_, _, _, _)
retry_from(fn, script, max_attempts, attempt) ==
    IF attempt >= max_attempts
    THEN [ret |-> "False", completed |-> FALSE, raised |-> FALSE,
          calls |-> 0, warnings |-> 0, errors |-> 0]
    ELSE CASE script[attempt + 1] = "ok" ->
                [ret |-> FuncReturn(fn), completed |-> TRUE, raised |-> FALSE,
                 calls |-> 1, warnings |-> 0, errors |-> 0]
           [] script[attempt + 1] = "other" ->
                [ret |-> "None", completed |-> FALSE, raised |-> TRUE,
                 calls |-> 1, warnings |-> 0, errors |-> 0]
           [] script[attempt + 1] = "oserror" ->
                IF IsLastAttempt(attempt, max_attempts)
                THEN [ret |-> "False", completed |-> FALSE, raised |-> FALSE,
                      calls |-> 1, warnings |-> 0, errors |-> 1]
                ELSE LET r == retry_from(fn, script, max_attempts, attempt + 1)
                     IN  [r EXCEPT !.calls = @ + 1, !.warnings = @ + 1]

retry_on_error(fn, script, max_attempts) == retry_from(fn, script, max_attempts, 0)

(***************************************************************************)
(* One retry_on_error call made by a call site.  `bad` is the set of       *)
(* target paths on which the operating system fails transiently on every   *)
(* attempt; a mutation that cannot be done in the current tree (missing    *)
(* source, missing parent, ...) raises an OSError on every attempt too.    *)
(* site: "always" (the caller logs its message whatever is returned),      *)
(* "ifret" (it logs when the returned value is truthy), "none" (no message)*)
(***************************************************************************)
Other(r) == 3 - r

\* The notifications a completed mutation on root c.root causes there.
Notifications(c, F, res) ==
    CASE c.fn = "makedirs" ->
            LET n == Cardinality(res.touched)
            IN  [i \in 1..n |->
                    [type |-> "created", path |-> SubSeq(c.path, 1, Len(c.path) - n + i),
                     dest |-> <<>>, isdir |-> TRUE]]
      [] c.fn = "copy2" ->
            LET dst == CHOOSE q \in res.touched : TRUE
            IN  <<[type |-> IF Exists(F, c.root, dst) THEN "modified" ELSE "created",
                   path |-> dst, dest |-> <<>>, isdir |-> FALSE]>>
      [] c.fn = "remove" ->
            <<[type |-> "deleted", path |-> c.path, dest |-> <<>>, isdir |-> FALSE]>>
      [] c.fn = "rmtree" ->
            <<[type |-> "deleted", path |-> c.path, dest |-> <<>>, isdir |-> TRUE]>>
      [] c.fn = "move" ->
            <<[type |-> "moved", path |-> c.src,
               dest |-> IF IsDir(F, c.root, c.path)
                        THEN Append(c.path, BaseName(c.src)) ELSE c.path,
               isdir |-> IsDir(F, c.root, c.src)]>>

Logged(site, ret) == site = "always" \/ (site = "ifret" /\ Truthy(ret))

\* What the attempts of a call do: the transient failure, or the mutation.
Script(fails) ==
    [i \in 1..DEFAULT_MAX_ATTEMPTS |-> IF fails THEN "oserror" ELSE "ok"]

Outcome(c, F, site, res, r) ==
    [F |-> IF r.completed THEN res.F ELSE F,
     notes |-> IF r.completed THEN Notifications(c, F, res) ELSE <<>>,
     op |-> [fn |-> c.fn, root |-> c.root, path |-> c.path, src |-> c.src,
             completed |-> r.completed, ret |-> r.ret,
             touched |-> IF r.completed THEN res.touched ELSE {},
             site |-> site, logged |-> Logged(site, r.ret),
             calls |-> r.calls, warnings |-> r.warnings, errors |-> r.errors]]

\* Op applied to the value of x.
With(x, Op(_)) == CHOOSE v \in {Op(y) : y \in {x}} : TRUE

Attempted(c, F, site, res, transient) ==
    With(retry_on_error(c.fn, Script(transient \/ ~res.ok), DEFAULT_MAX_ATTEMPTS),
         LAMBDA r : Outcome(c, F, site, res, r))

Exec(c, F, bad, site) ==
    With(Apply(c, F), LAMBDA res : Attempted(c, F, site, res, c.path \in bad))

\* What a handler or a pass has done so far: the trees, the calls it made
\* (in order) and the notifications they caused (in order).
Start(F) == [F |-> F, ops |-> <<>>, notes |-> <<>>]
Merge(acc, e) ==
    [F |-> e.F, ops |-> Append(acc.ops, e.op), notes |-> acc.notes \o e.notes]
Then(acc, cs, bad) ==
    With(acc, LAMBDA a :
        With(Exec(cs.call, a.F, bad, cs.site), LAMBDA e : Merge(a, e)))

\* The calls of one handler or pass, made one after the other.
RunFrom(acc, calls, bad) ==
    With(calls, LAMBDA cs :
        LET st[i \in 0..Len(cs)] ==
                IF i = 0 THEN acc ELSE Then(st[i - 1], cs[i], bad)
        IN  st[Len(cs)])

Site(call, site) == [call |-> call, site |-> site]

(***************************************************************************)
(* BidirectionalSyncHandler.on_any_event for an event the observer of root *)
(* o delivers.  The roots of a pair are siblings, so that a path of root o *)
(* taken relative to the other root and joined to root o is the path       *)
(* itself.  Every test the handler makes precedes its first mutation, so   *)
(* the handler is the list of calls it decides on, then their execution.   *)
(***************************************************************************)
RECURSIVE PathChars(_)
PathChars(p) ==
    IF p = <<>> THEN <<>> ELSE PathChars(Parent(p)) \o <<"/">> \o Chars(BaseName(p))

AbsPath(R, o, p) == R[o] \o PathChars(p)

\* The root the event is taken to come from.
SrcDir(R, o, p) == IF IsPrefixSeq(R[1], AbsPath(R, o, p)) THEN 1 ELSE 2
\* The root that dest_path = join(dest_dir, relpath(src_path, src_dir)) lies in.
MirrorRoot(R, o, p) == IF SrcDir(R, o, p) = o THEN Other(o) ELSE o

\* lines 57-64
OnCreatedOrModified(F, o, t, ev) ==
    IF ev.isdir
    THEN <<Site(MkCall("makedirs", o, <<>>, t, ev.path), "always")>>
    ELSE <<Site(MkCall("makedirs", o, <<>>, t, Parent(ev.path)), "none"),
           Site(MkCall("copy2", o, ev.path, t, ev.path), "ifret")>>

\* lines 65-72
OnDeletedUnchecked(F, o, t, ev) ==
    IF IsDir(F, o, ev.path) \/ ev.isdir
    THEN <<Site(MkCall("rmtree", o, <<>>, t, ev.path), "ifret")>>
    ELSE <<Site(MkCall("remove", o, <<>>, t, ev.path), "ifret")>>
OnDeletedFilesOnly(F, o, t, ev) ==
    IF Exists(F, t, ev.path)
    THEN <<Site(MkCall("remove", o, <<>>, t, ev.path), "ifret")>>
    ELSE <<>>
OnDeleted(F, o, t, ev) ==
    IF Exists(F, t, ev.path)
    THEN IF IsDir(F, t, ev.path)
         THEN <<Site(MkCall("rmtree", o, <<>>, t, ev.path), "ifret")>>
         ELSE <<Site(MkCall("remove", o, <<>>, t, ev.path), "ifret")>>
    ELSE <<>>

\* lines 73-84
MovedIgnoredNever(ev) == FALSE
MovedIgnored(ev) == should_ignore(ev.dest)

OnMovedNoParent(F, o, t, ev) ==
    IF MovedIgnored(ev) THEN <<>>
    ELSE IF Exists(F, t, ev.path)
         THEN <<Site(MkCall("move", t, ev.path, t, ev.dest), "ifret")>>
         ELSE <<>>
OnMoved(F, o, t, ev) ==
    IF MovedIgnored(ev) THEN <<>>
    ELSE IF Exists(F, t, ev.path)
         THEN <<Site(MkCall("makedirs", o, <<>>, t, Parent(ev.dest)), "none"),
                Site(MkCall("move", t, ev.path, t, ev.dest), "ifret")>>
         ELSE <<>>

EventCalls(R, F, o, ev) ==
    IF should_ignore(ev.path) THEN <<>>
    ELSE CASE ev.type \in {"created", "modified"} ->
                OnCreatedOrModified(F, o, MirrorRoot(R, o, ev.path), ev)
           [] ev.type = "deleted" -> OnDeleted(F, o, MirrorRoot(R, o, ev.path), ev)
           [] ev.type = "moved" -> OnMoved(F, o, MirrorRoot(R, o, ev.path), ev)
           [] OTHER -> <<>>

on_any_event(R, F, o, ev, bad) == RunFrom(Start(F), EventCalls(R, F, o, ev), bad)

(***************************************************************************)
(* initial_sync(source_dir, dest_dir): s and d are the two roots.  The     *)
(* tests of the forward walk read the source, which the pass never         *)
(* changes, and the mirrored file itself, which no earlier step of the     *)
(* walk writes; the tests of the orphan walk read the source and the       *)
(* listing of dest as the forward walk left it.                            *)
(***************************************************************************)
\* The paths of S in an order in which Before(x, y) puts x first.
Ordered(S, Before(_, _)) ==
    LET pick[i \in 0..Cardinality(S)] ==
            IF i = 0 THEN [seq |-> <<>>, rest |-> S]
            ELSE With(pick[i - 1], LAMBDA prev :
                    With(CHOOSE x \in prev.rest :
                             \A y \in prev.rest : x = y \/ ~Before(y, x),
                         LAMBDA x : [seq |-> Append(prev.seq, x),
                                     rest |-> prev.rest \ {x}]))
    IN  pick[Cardinality(S)].seq

DirsOf(F, r) == {p \in DOMAIN F[r] : F[r][p].kind = "dir"}

\* os.walk(source_dir): a directory before what it contains, and the files
\* of a directory before its subdirectories are entered.
WalkTopDown(F, r) ==
    Ordered(DOMAIN F[r],
            LAMBDA x, y : \/ Len(x) < Len(y)
                          \/ (Len(x) = Len(y) /\ IsFile(F, r, x) /\ IsDir(F, r, y)))

\* os.walk(dest_dir, topdown=False): a directory after its subdirectories;
\* the body of the loop handles the files of a directory, then the directory.
WalkBottomUp(F, r) ==
    Ordered(DOMAIN F[r],
            LAMBDA x, y : \/ Len(x) > Len(y)
                          \/ (Len(x) = Len(y) /\ IsDir(F, r, x) /\ IsFile(F, r, y)))

\* line 123: copy when the mirrored file is absent or older
NeedsCopyAlways(F, s, d, f) == TRUE
NeedsCopyOnTie(F, s, d, f) == ~Exists(F, d, f) \/ F[s][f].mtime >= F[d][f].mtime
NeedsCopy(F, s, d, f) == ~Exists(F, d, f) \/ F[s][f].mtime > F[d][f].mtime

\* lines 110-125: what the forward walk does at path p of the source
ForwardActsDirsOnly(F, s, d, p) == IsDir(F, s, p)
ForwardActs(F, s, d, p) ==
    IF IsDir(F, s, p) THEN TRUE
    ELSE ~should_ignore(p) /\ NeedsCopy(F, s, d, p)

ForwardCall(F, s, d, p) ==
    IF IsDir(F, s, p)
    THEN Site(MkCall("makedirs", s, <<>>, d, p), "always")
    ELSE Site(MkCall("copy2", s, p, d, p), "ifret")

\* line 141: the dest root itself is never removed
IsDestRootNever(root) == FALSE
IsDestRoot(root) == root = <<>>

\* lines 128-143: what the orphan walk does at path p of dest
OrphanActsFilesOnly(F, s, d, p) ==
    IsFile(F, d, p) /\ ~should_ignore(p) /\ ~Exists(F, s, p)
OrphanActs(F, s, d, p) ==
    IF IsDir(F, d, p)
    THEN ~Exists(F, s, p) /\ ~IsDestRoot(p)
    ELSE ~should_ignore(p) /\ ~Exists(F, s, p)

OrphanCall(F, s, d, p) ==
    IF IsDir(F, d, p)
    THEN Site(MkCall("rmtree", s, <<>>, d, p), "ifret")
    ELSE Site(MkCall("remove", s, <<>>, d, p), "ifret")

CallsAt(paths, Call(_)) ==
    With(paths, LAMBDA ps : [i \in 1..Len(ps) |-> Call(ps[i])])

ForwardCalls(F, s, d) ==
    CallsAt(SelectSeq(WalkTopDown(F, s), LAMBDA p : ForwardActs(F, s, d, p)),
            LAMBDA p : ForwardCall(F, s, d, p))

OrphanCalls(F, s, d) ==
    CallsAt(SelectSeq(WalkBottomUp(F, d), LAMBDA p : OrphanActs(F, s, d, p)),
            LAMBDA p : OrphanCall(F, s, d, p))

OrphanPass(mid, s, d, bad) == RunFrom(mid, OrphanCalls(mid.F, s, d), bad)

initial_sync(F, s, d, bad) ==
    With(RunFrom(Start(F), ForwardCalls(F, s, d), bad),
         LAMBDA mid : OrphanPass(mid, s, d, bad))

(***************************************************************************)
(* Initial states.  The two roots are sibling directories.  A tree holds   *)
(* a.txt and the ignored b.tmp at the root and in the directory x; a file  *)
(* that starts under dir1 has content "one", under dir2 content "two".     *)
(***************************************************************************)
RootPairs == { << <<"/", "p">>, <<"/", "q">> >> }

InitContent(r) == IF r = 1 THEN "one" ELSE "two"

\* shape: [a, xa: 0..MaxTime (0: absent); b, xb, x: BOOLEAN]
Shapes ==
    {sh \in [a : 0..MaxTime, xa : 0..MaxTime, b : BOOLEAN, xb : BOOLEAN, x : BOOLEAN] :
        ~sh.x => (sh.xa = 0 /\ ~sh.xb)}

TreeOf(sh, r) ==
    LET dom == {<<>>}
               \cup (IF sh.x THEN {<<"x">>} ELSE {})
               \cup (IF sh.a > 0 THEN {<<"a.txt">>} ELSE {})
               \cup (IF sh.b THEN {<<"b.tmp">>} ELSE {})
               \cup (IF sh.xa > 0 THEN {<<"x", "a.txt">>} ELSE {})
               \cup (IF sh.xb THEN {<<"x", "b.tmp">>} ELSE {})
    IN  [p \in dom |->
            CASE p \in {<<>>, <<"x">>} -> DirEntry
              [] p = <<"a.txt">> -> FileEntry(sh.a, InitContent(r))
              [] p = <<"x", "a.txt">> -> FileEntry(sh.xa, InitContent(r))
              [] OTHER -> FileEntry(1, InitContent(r))]

\* The trees the full program is started on: an empty root, or a.txt
\* beside a directory x that holds the ignored b.tmp.
SeedShapes ==
    {sh \in Shapes : sh.b = FALSE /\ sh.xb = sh.x /\ sh.xa = 0 /\
        <<sh.a, sh.x>> \in {<<0, FALSE>>, <<1, TRUE>>}}

NoEvent == [type |-> "none", path |-> <<>>, dest |-> <<>>, isdir |-> FALSE]
NoLast == [kind |-> "none", root |-> 0, ev |-> NoEvent, ops |-> <<>>, pre |-> <<>>]
NoResult == [ret |-> "None", completed |-> FALSE, raised |-> FALSE,
             calls |-> 0, warnings |-> 0, errors |-> 0]
NoRt == [fn |-> "none", script |-> <<>>, max_attempts |-> 0, state |-> "idle",
         result |-> NoResult]

NoSup == [obs |-> <<"new", "new">>, busy |-> <<NoEvent, NoEvent>>, printed |-> <<>>,
          interrupted |-> FALSE, cut |-> <<FALSE, FALSE>>]

InitWith(shapes, b) ==
    /\ roots \in RootPairs
    /\ fs \in {<<TreeOf(s1, 1), TreeOf(s2, 2)>> : s1 \in shapes, s2 \in shapes}
    /\ pc = "sync1"
    /\ queue = <<(<<>>), (<<>>)>>
    /\ budget = b
    /\ last = NoLast
    /\ boot = [start |-> fs, failed |-> FALSE, passes |-> <<>>]
    /\ rt = NoRt
    /\ sup = NoSup

Init == InitWith(SeedShapes, MaxExt)

(***************************************************************************)
(* sync_directories: the two startup passes.                               *)
(***************************************************************************)
FailChoices(S) == {{}} \cup {{p} : p \in S}

Exhausted(ops) == \E i \in 1..Len(ops) : ~ops[i].completed

Synced(s, res) ==
    /\ fs' = res.F
    /\ boot' = [boot EXCEPT !.failed = @ \/ Exhausted(res.ops),
                            !.passes = Append(@, s)]
    /\ last' = [kind |-> "sync", root |-> s, ev |-> NoEvent, ops |-> res.ops, pre |-> fs]

Sync(s, d, from, to) ==
    /\ pc = from
    /\ \E bad \in FailChoices((DOMAIN fs[1]) \cup (DOMAIN fs[2])) :
          \E res \in {initial_sync(fs, s, d, bad)} : Synced(s, res)
    /\ pc' = to
    /\ UNCHANGED <<roots, queue, budget, rt, sup>>

Sync1 == Sync(1, 2, "sync1", "sync2")
Sync2 == Sync(2, 1, "sync2", "watching")

(***************************************************************************)
(* The watch phase: external changes under either root, each notified to   *)
(* that root's observer, and the handler run by the observer threads.      *)
(***************************************************************************)
Notify(q, r, notes) == [q EXCEPT ![r] = @ \o notes]

External(r, F, ev) ==
    /\ pc = "watching"
    /\ budget > 0
    /\ budget' = budget - 1
    /\ fs' = F
    /\ queue' = Notify(queue, r, <<ev>>)
    /\ last' = [kind |-> "ext", root |-> r, ev |-> ev, ops |-> <<>>, pre |-> fs]
    /\ UNCHANGED <<roots, pc, boot, rt, sup>>

FilePathsIn(F, r) == {Append(d, n) : d \in DirsOf(F, r), n \in FileNames}

\* A file is created or rewritten, with an old or a recent timestamp.
ExtWrite(r) ==
    \E p \in FilePathsIn(fs, r), m \in {1, MaxTime} :
        External(r, [fs EXCEPT ![r] = [q \in DOMAIN fs[r] \cup {p} |->
                                          IF q = p THEN FileEntry(m, "new") ELSE fs[r][q]]],
                 [type |-> IF Exists(fs, r, p) THEN "modified" ELSE "created",
                  path |-> p, dest |-> <<>>, isdir |-> FALSE])

ExtMkdir(r) ==
    \E n \in DirNames :
        /\ ~Exists(fs, r, <<n>>)
        /\ External(r, makedirs(fs, r, <<n>>).F,
                    [type |-> "created", path |-> <<n>>, dest |-> <<>>, isdir |-> TRUE])

ExtDelete(r) ==
    \E p \in DOMAIN fs[r] \ {<<>>} :
        External(r, [fs EXCEPT ![r] = [q \in DOMAIN fs[r] \ Subtree(fs, r, p) |-> fs[r][q]]],
                 [type |-> "deleted", path |-> p, dest |-> <<>>, isdir |-> IsDir(fs, r, p)])

\* A file is renamed to a free name, in its directory or another one.
ExtMove(r) ==
    \E p \in {f \in DOMAIN fs[r] : IsFile(fs, r, f)} :
        \E q \in FilePathsIn(fs, r) :
            /\ ~Exists(fs, r, q)
            /\ External(r, move(fs, r, p, q).F,
                        [type |-> "moved", path |-> p, dest |-> q, isdir |-> FALSE])

Failures(ev) == FailChoices({ev.path, Parent(ev.path), ev.dest, Parent(ev.dest)})

HandledRequeue(r, ev, res) ==
    /\ fs' = res.F
    /\ queue' = Notify([queue EXCEPT ![r] = IF Exhausted(res.ops)
                                            THEN Append(Tail(@), ev) ELSE Tail(@)],
                       MirrorRoot(roots, r, ev.path), res.notes)
    /\ last' = [kind |-> "event", root |-> r, ev |-> ev, ops |-> res.ops, pre |-> fs]
Handled(r, ev, res) ==
    /\ fs' = res.F
    /\ queue' = Notify([queue EXCEPT ![r] = Tail(@)], MirrorRoot(roots, r, ev.path), res.notes)
    /\ last' = [kind |-> "event", root |-> r, ev |-> ev, ops |-> res.ops, pre |-> fs]

HandleEvent(r) ==
    /\ pc = "watching"
    /\ queue[r] # <<>>
    /\ \E ev \in {Head(queue[r])} :
          \E bad \in Failures(ev) :
              \E res \in {on_any_event(roots, fs, r, ev, bad)} : Handled(r, ev, res)
    /\ UNCHANGED <<roots, pc, budget, boot, rt, sup>>

Next ==
    \/ Sync1
    \/ Sync2
    \/ \E r \in 1..2 : ExtWrite(r)
    \/ \E r \in 1..2 : ExtMkdir(r)
    \/ \E r \in 1..2 : ExtDelete(r)
    \/ \E r \in 1..2 : ExtMove(r)
    \/ \E r \in 1..2 : HandleEvent(r)

Spec == Init /\ [][Next]_vars

(***************************************************************************)
(* The startup reconciliation alone, from every pair of trees.             *)
(***************************************************************************)
InitReconcile == InitWith(Shapes, 0)
NextReconcile == Sync1 \/ Sync2
ReconcileSpec == InitReconcile /\ [][NextReconcile]_vars

(***************************************************************************)
(* One external write and the events it sets off.  The observer threads    *)
(* dispatch every queued event, and the startup passes run to their end.   *)
(***************************************************************************)
InitEcho == InitWith(SeedShapes, 1)
NextEcho ==
    \/ Sync1
    \/ Sync2
    \/ \E r \in 1..2 : ExtWrite(r)
    \/ \E r \in 1..2 : HandleEvent(r)
EchoSpec ==
    /\ InitEcho
    /\ [][NextEcho]_vars
    /\ WF_vars(Sync1) /\ WF_vars(Sync2)
    /\ WF_vars(HandleEvent(1)) /\ WF_vars(HandleEvent(2))

(***************************************************************************)
(* retry_on_error on its own: any of the five mutations, any max_attempts  *)
(* up to MaxTries and the default, any outcome of each attempt.            *)
(***************************************************************************)
Attempts == (0..MaxTries) \cup {DEFAULT_MAX_ATTEMPTS}

InitRetry ==
    /\ roots \in RootPairs
    /\ fs = <<TreeOf([a |-> 0, xa |-> 0, b |-> FALSE, xb |-> FALSE, x |-> FALSE], 1),
              TreeOf([a |-> 0, xa |-> 0, b |-> FALSE, xb |-> FALSE, x |-> FALSE], 2)>>
    /\ pc = "retry"
    /\ queue = <<(<<>>), (<<>>)>>
    /\ budget = 0
    /\ last = NoLast
    /\ boot = [start |-> fs, failed |-> FALSE, passes |-> <<>>]
    /\ sup = NoSup
    /\ \E fn \in Funcs, m \in Attempts :
          \E script \in [1..m -> Outcomes] :
             rt = [fn |-> fn, script |-> script, max_attempts |-> m, state |-> "call",
                   result |-> NoResult]

Returned(r) ==
    rt' = [rt EXCEPT !.state = IF r.raised THEN "raised" ELSE "returned", !.result = r]

RetryCall ==
    /\ pc = "retry"
    /\ rt.state = "call"
    /\ Returned(retry_on_error(rt.fn, rt.script, rt.max_attempts))
    /\ UNCHANGED <<roots, fs, pc, queue, budget, last, boot, sup>>

NextRetry == RetryCall
RetrySpec == InitRetry /\ [][NextRetry]_vars

(***************************************************************************)
(* The whole process: __main__, sync_directories with its two observers,   *)
(* and Ctrl+C.  Each observer runs its own thread, which dispatches the    *)
(* notifications of its root to the shared handler one at a time; a        *)
(* handler run is in flight from its dispatch to its completion.  stop()   *)
(* asks the thread to end, which it does once no handler run is in         *)
(* flight; join() returns when the thread has ended.  The observer         *)
(* threads are daemon threads: they die with the main thread.              *)
(* One file is written from outside while the process runs; the copies it  *)
(* sets off keep both observers busy.                                      *)
(***************************************************************************)
Missing == [p \in {} |-> DirEntry]

LifeTrees(r) == {Missing} \cup {TreeOf(sh, r) : sh \in SeedShapes}

InitLife ==
    /\ roots \in RootPairs
    /\ fs \in {<<t1, t2>> : t1 \in LifeTrees(1), t2 \in LifeTrees(2)}
    /\ pc = "main"
    /\ queue = <<(<<>>), (<<>>)>>
    /\ budget = 1
    /\ last = NoLast
    /\ boot = [start |-> fs, failed |-> FALSE, passes |-> <<>>]
    /\ rt = NoRt
    /\ sup = NoSup

\* line 149
RootsExistEither(F) == Exists(F, 1, <<>>) \/ Exists(F, 2, <<>>)
RootsExist(F) == Exists(F, 1, <<>>) /\ Exists(F, 2, <<>>)

\* lines 149-154
Main ==
    /\ pc = "main"
    /\ IF RootsExist(fs)
       THEN /\ pc' = "sync1"
            /\ sup' = [sup EXCEPT !.printed = <<"syncing", "press ctrl+c">>]
       ELSE /\ pc' = "refused"
            /\ sup' = [sup EXCEPT !.printed = <<"do not exist">>]
    /\ UNCHANGED <<roots, fs, queue, budget, last, boot, rt>>

\* line 90, followed by the observers' construction (lines 92-96)
Sync2Life == Sync(2, 1, "sync2", "start1")

\* lines 97 and 98
ObserverStart(r, from, to) ==
    /\ pc = from
    /\ pc' = to
    /\ sup' = [sup EXCEPT !.obs[r] = "running"]
    /\ UNCHANGED <<roots, fs, queue, budget, last, boot, rt>>

Start1Early == ObserverStart(1, "sync2", "sync2")
Start1 == ObserverStart(1, "start1", "start2")
Start2 == ObserverStart(2, "start2", "watching")

\* Whether a handler run is in flight on the thread of observer r.
InFlight(r) == sup.busy[r] # NoEvent

\* Ctrl+C: KeyboardInterrupt is raised in the main thread.  Only the loop of
\* lines 100-103 catches it; anywhere else in sync_directories it ends the
\* process.
InTry(at) == at = "watching"
Interrupt ==
    /\ ~sup.interrupted
    /\ pc \in {"sync1", "sync2", "start1", "start2", "watching"}
    /\ pc' = IF InTry(pc) THEN "stop1" ELSE "killed"
    /\ sup' = [sup EXCEPT !.interrupted = TRUE, !.cut = <<InFlight(1), InFlight(2)>>]
    /\ UNCHANGED <<roots, fs, queue, budget, last, boot, rt>>

\* lines 104 and 105
ObserverStop(r, from, to) ==
    /\ pc = from
    /\ pc' = to
    /\ sup' = [sup EXCEPT !.obs[r] = "stopping"]
    /\ UNCHANGED <<roots, fs, queue, budget, last, boot, rt>>

Stop1 == ObserverStop(1, "stop1", "stop2")
Stop2 == ObserverStop(2, "stop2", "join1")

\* lines 106 and 107: join() blocks while the thread is alive
JoinReadyNoWait(r) == TRUE
JoinReady(r) == sup.obs[r] = "dead"

ObserverJoin(r, from, to) ==
    /\ pc = from
    /\ JoinReady(r)
    /\ pc' = to
    /\ UNCHANGED <<roots, fs, queue, budget, last, boot, rt, sup>>

Join1 == ObserverJoin(1, "join1", "join2")
Join2 == ObserverJoin(2, "join2", "returned")

Alive == pc \notin {"refused", "killed", "returned"}
Watched(r) == sup.obs[r] = "running"

\* The thread of observer r takes the next notification off its queue and
\* enters the handler with it.
Dispatch(r) ==
    /\ Alive
    /\ Watched(r)
    /\ ~InFlight(r)
    /\ queue[r] # <<>>
    /\ sup' = [sup EXCEPT !.busy[r] = Head(queue[r])]
    /\ queue' = [queue EXCEPT ![r] = Tail(@)]
    /\ UNCHANGED <<roots, fs, pc, budget, last, boot, rt>>

\* Notifications reach only the queue of an observer that is running.
Heard(q) == [r \in 1..2 |-> IF Watched(r) THEN q[r] ELSE <<>>]

HandledLife(r, ev, res) ==
    /\ fs' = res.F
    /\ queue' = Heard(Notify(queue, MirrorRoot(roots, r, ev.path), res.notes))
    /\ last' = [kind |-> "event", root |-> r, ev |-> ev, ops |-> res.ops, pre |-> fs]

\* The handler run in flight on the thread of observer r (lines 43-84).
Complete(r) ==
    /\ Alive
    /\ InFlight(r)
    /\ \E ev \in {sup.busy[r]} :
          \E bad \in Failures(ev) :
              \E res \in {on_any_event(roots, fs, r, ev, bad)} : HandledLife(r, ev, res)
    /\ sup' = [sup EXCEPT !.busy[r] = NoEvent]
    /\ UNCHANGED <<roots, pc, budget, boot, rt>>

\* The thread of a stopped observer ends once no handler run is in flight.
ThreadExit(r) ==
    /\ Alive
    /\ sup.obs[r] = "stopping"
    /\ ~InFlight(r)
    /\ sup' = [sup EXCEPT !.obs[r] = "dead"]
    /\ UNCHANGED <<roots, fs, pc, queue, budget, last, boot, rt>>

\* A file is written under root r while the process runs.
WriteLife(r) ==
    /\ Alive
    /\ \E o \in 1..2 : Watched(o)
    /\ budget > 0
    /\ budget' = budget - 1
    /\ \E p \in FilePathsIn(fs, r), m \in {1, MaxTime} :
          \E ev \in {[type |-> IF Exists(fs, r, p) THEN "modified" ELSE "created",
                      path |-> p, dest |-> <<>>, isdir |-> FALSE]} :
             /\ fs' = [fs EXCEPT ![r] = [q \in DOMAIN fs[r] \cup {p} |->
                                            IF q = p THEN FileEntry(m, "new") ELSE fs[r][q]]]
             /\ queue' = Heard(Notify(queue, r, <<ev>>))
             /\ last' = [kind |-> "ext", root |-> r, ev |-> ev, ops |-> <<>>, pre |-> fs]
    /\ UNCHANGED <<roots, pc, boot, rt, sup>>

NextLife ==
    \/ Main
    \/ Sync1
    \/ Sync2Life
    \/ Start1
    \/ Start2
    \/ Interrupt
    \/ Stop1
    \/ Stop2
    \/ Join1
    \/ Join2
    \/ \E r \in 1..2 : Dispatch(r)
    \/ \E r \in 1..2 : Complete(r)
    \/ \E r \in 1..2 : ThreadExit(r)
    \/ \E r \in 1..2 : WriteLife(r)

LifeSpec == InitLife /\ [][NextLife]_vars

(***************************************************************************)
(* The program on roots of which one is a string prefix of the other       *)
(* ("/p" and "/pq"), in either order.                                      *)
(***************************************************************************)
PrefixPairs ==
    { << <<"/", "p">>, <<"/", "p", "q">> >>, << <<"/", "p", "q">>, <<"/", "p">> >> }

InitPrefix ==
    /\ roots \in PrefixPairs
    /\ fs \in {<<TreeOf(s1, 1), TreeOf(s2, 2)>> : s1 \in SeedShapes, s2 \in SeedShapes}
    /\ pc = "sync1"
    /\ queue = <<(<<>>), (<<>>)>>
    /\ budget = MaxExt
    /\ last = NoLast
    /\ boot = [start |-> fs, failed |-> FALSE, passes |-> <<>>]
    /\ rt = NoRt
    /\ sup = NoSup

PrefixSpec == InitPrefix /\ [][Next]_vars

(***************************************************************************)
(* Edits of dir1 only, each with content of its own, racing with the       *)
(* handling of the notifications they set off.  Every notification of      *)
(* dir2 is then the echo of a write the handler made there.                *)
(***************************************************************************)
InitRace == InitWith(SeedShapes, MaxExt + 1)

ExtEdit ==
    \E p \in FilePathsIn(fs, 1) :
        External(1, [fs EXCEPT ![1] = [q \in DOMAIN fs[1] \cup {p} |->
                                          IF q = p THEN FileEntry(MaxTime, ToString(budget))
                                          ELSE fs[1][q]]],
                 [type |-> IF Exists(fs, 1, p) THEN "modified" ELSE "created",
                  path |-> p, dest |-> <<>>, isdir |-> FALSE])

NextRace ==
    \/ Sync1
    \/ Sync2
    \/ ExtEdit
    \/ \E r \in 1..2 : HandleEvent(r)

RaceSpec == InitRace /\ [][NextRace]_vars

(***************************************************************************)
(* One external delete or rename under dir1 and the notifications it sets  *)
(* off.  Every notification of dir2 is then the echo of a call the handler *)
(* made there.  The observer threads dispatch every queued notification.   *)
(***************************************************************************)
InitQuiesce == InitWith(SeedShapes, 1)

NextQuiesce ==
    \/ Sync1
    \/ Sync2
    \/ ExtDelete(1)
    \/ ExtMove(1)
    \/ \E r \in 1..2 : HandleEvent(r)

QuiesceSpec ==
    /\ InitQuiesce
    /\ [][NextQuiesce]_vars
    /\ WF_vars(Sync1) /\ WF_vars(Sync2)
    /\ WF_vars(HandleEvent(1)) /\ WF_vars(HandleEvent(2))

(***************************************************************************)
(* Properties.                                                             *)
(***************************************************************************)
\* The files of root r that no ignore pattern matches.
Regular(F, r) == {p \in DOMAIN F[r] : IsFile(F, r, p) /\ ~should_ignore(p)}
Ignored(F, r) == {p \in DOMAIN F[r] : IsFile(F, r, p) /\ should_ignore(p)}

\* The newer of the modification times p has under the two roots.
Newest(F, p) ==
    IF ~Exists(F, 1, p) THEN F[2][p].mtime
    ELSE IF ~Exists(F, 2, p) THEN F[1][p].mtime
    ELSE IF F[1][p].mtime > F[2][p].mtime THEN F[1][p].mtime ELSE F[2][p].mtime

StartupDone == pc = "watching" /\ last.kind = "sync" /\ last.root = 2

\* C1: after initial_sync(dir1, dir2) and initial_sync(dir2, dir1) with no
\* executor failure, both trees hold the union of the non-ignored files of the
\* two initial trees, each with the newer of its modification times.
C1_BaselineUnion ==
    (StartupDone /\ ~boot.failed) =>
        \A r \in 1..2 :
            /\ Regular(fs, r) = Regular(boot.start, 1) \cup Regular(boot.start, 2)
            /\ \A p \in Regular(fs, r) : fs[r][p].mtime = Newest(boot.start, p)

\* C2: after one external create or modify and no other external change,
\* event handling quiesces: from some point on no event is pending on either
\* watcher.
Quiet == queue[1] = <<>> /\ queue[2] = <<>>
C2_EchoQuiesces == <>[]Quiet

\* C3: no call made by initial_sync or by on_any_event copies, removes or moves
\* a file whose base name matches an ignore pattern.
TouchesIgnored(op) ==
    \E q \in op.touched : q \in Ignored(last.pre, op.root) \/ q \in Ignored(fs, op.root)
C3_IgnoredUntouched ==
    last.kind \in {"sync", "event"} =>
        \A i \in 1..Len(last.ops) : ~TouchesIgnored(last.ops[i])

\* C4: when func raises an OSError on every attempt, retry_on_error
\* (max_attempts >= 1) calls it max_attempts times, logs max_attempts - 1
\* warnings and one error, returns False and lets nothing escape.
AllOsError == \A i \in 1..rt.max_attempts : rt.script[i] = "oserror"
C4_RetryExhaustion ==
    (rt.state \in {"returned", "raised"} /\ rt.max_attempts >= 1 /\ AllOsError) =>
        /\ rt.state = "returned"
        /\ rt.result.ret = "False"
        /\ ~rt.result.completed
        /\ rt.result.calls = rt.max_attempts
        /\ rt.result.warnings = rt.max_attempts - 1
        /\ rt.result.errors = 1
C4_Witness ==
    /\ rt.state = "returned"
    /\ rt.max_attempts = DEFAULT_MAX_ATTEMPTS
    /\ AllOsError
    /\ rt.result.calls = DEFAULT_MAX_ATTEMPTS
    /\ rt.result.errors = 1

\* C5: for each of the five mutations the value retry_on_error returns is
\* truthy exactly when the mutation completed, and the caller logs its success
\* message exactly when it completed.
C5_SuccessSignal ==
    \A i \in 1..Len(last.ops) :
        /\ Truthy(last.ops[i].ret) <=> last.ops[i].completed
        /\ last.ops[i].site # "none" => (last.ops[i].logged <=> last.ops[i].completed)

\* The event the last step handled, its origin root and the opposite root.
Handling(types) ==
    last.kind = "event" /\ last.ev.type \in types /\ ~should_ignore(last.ev.path)
Origin == last.root
Opposite == Other(last.root)
IsCall(op, fn, root, path) == op.fn = fn /\ op.root = root /\ op.path = path

\* C6: handling a Created or Modified event for a non-ignored file first ensures
\* the mirrored parent directory, then copies the file; when the copy completes,
\* the file at the mirrored path under the opposite root has the content and the
\* modification time of the origin file.
C6_Propagation ==
    (Handling({"created", "modified"}) /\ ~last.ev.isdir) =>
        /\ Len(last.ops) = 2
        /\ IsCall(last.ops[1], "makedirs", Opposite, Parent(last.ev.path))
        /\ IsCall(last.ops[2], "copy2", Opposite, last.ev.path)
        /\ last.ops[2].src = last.ev.path
        /\ last.ops[2].completed =>
              /\ IsDir(fs, Opposite, Parent(last.ev.path))
              /\ IsFile(fs, Opposite, last.ev.path)
              /\ fs[Opposite][last.ev.path] = fs[Origin][last.ev.path]
              /\ fs[Origin] = last.pre[Origin]
C6_Witness ==
    /\ Handling({"created"})
    /\ ~last.ev.isdir
    /\ Origin = 2
    /\ Len(last.ev.path) = 2
    /\ ~Exists(last.pre, 1, last.ev.path)
    /\ last.ops[2].completed
    /\ fs[1][last.ev.path] = fs[2][last.ev.path]
    /\ fs[1][last.ev.path].mtime = 1

\* C7: handling a Deleted event whose mirrored path exists removes that path
\* from the opposite root, by rmtree when it is a directory and by remove when
\* it is a file; the origin root is left as it is, so the path then exists
\* under neither root.
C7_Deletion ==
    (Handling({"deleted"}) /\ Exists(last.pre, Opposite, last.ev.path)) =>
        /\ Len(last.ops) = 1
        /\ IsCall(last.ops[1],
                  IF IsDir(last.pre, Opposite, last.ev.path) THEN "rmtree" ELSE "remove",
                  Opposite, last.ev.path)
        /\ last.ops[1].completed =>
              /\ Subtree(fs, Opposite, last.ev.path) = {}
              /\ fs[Origin] = last.pre[Origin]
              /\ ~Exists(last.pre, Origin, last.ev.path) =>
                    \A r \in 1..2 : ~Exists(fs, r, last.ev.path)
C7_Witness ==
    /\ Handling({"deleted"})
    /\ IsDir(last.pre, Opposite, last.ev.path)
    /\ Cardinality(Subtree(last.pre, Opposite, last.ev.path)) > 1
    /\ last.ops[1].completed
    /\ \A r \in 1..2 : ~Exists(fs, r, last.ev.path)

\* C8: handling a Moved event of a non-ignored item whose mirrored old path
\* exists ensures the parent of the mirrored new path, then moves mirrored-old
\* to mirrored-new; when the move completes mirrored-old is absent and
\* mirrored-new is present, holding what mirrored-old held.
C8_Move ==
    (Handling({"moved"}) /\ ~should_ignore(last.ev.dest)
        /\ Exists(last.pre, Opposite, last.ev.path)) =>
        /\ Len(last.ops) = 2
        /\ IsCall(last.ops[1], "makedirs", Opposite, Parent(last.ev.dest))
        /\ IsCall(last.ops[2], "move", Opposite, last.ev.dest)
        /\ last.ops[2].src = last.ev.path
        /\ last.ops[2].completed =>
              /\ ~Exists(fs, Opposite, last.ev.path)
              /\ Exists(fs, Opposite, last.ev.dest)
              /\ IsDir(fs, Opposite, Parent(last.ev.dest))
              /\ ~IsDir(last.pre, Opposite, last.ev.dest) =>
                    fs[Opposite][last.ev.dest] = last.pre[Opposite][last.ev.path]
C8_Witness ==
    /\ Handling({"moved"})
    /\ ~Exists(last.pre, Opposite, Parent(last.ev.dest))
    /\ last.ops[1].touched = {Parent(last.ev.dest)}
    /\ last.ops[2].completed
    /\ ~Exists(fs, Opposite, last.ev.path)
    /\ IsFile(fs, Opposite, last.ev.dest)

\* C9: a Moved event whose mirrored old path does not exist, or whose source or
\* destination name matches an ignore pattern, makes no call and changes
\* nothing under either root.
C9_NoOpMove ==
    (last.kind = "event" /\ last.ev.type = "moved"
        /\ \/ ~Exists(last.pre, Opposite, last.ev.path)
           \/ should_ignore(last.ev.path)
           \/ should_ignore(last.ev.dest)) =>
        /\ last.ops = <<>>
        /\ fs = last.pre
C9_Witness ==
    /\ last.kind = "event" /\ last.ev.type = "moved"
    /\ ~should_ignore(last.ev.path)
    /\ should_ignore(last.ev.dest)
    /\ Exists(last.pre, Opposite, last.ev.path)
    /\ last.ops = <<>>

\* C10: initial_sync on a pair that is already synchronized (same directories,
\* same non-ignored files, equal modification times) changes nothing: its only
\* calls are makedirs on directories that exist.
Synchronized(F) ==
    /\ DirsOf(F, 1) = DirsOf(F, 2)
    /\ Regular(F, 1) = Regular(F, 2)
    /\ \A p \in Regular(F, 1) : F[1][p].mtime = F[2][p].mtime
C10_Idempotent ==
    (last.kind = "sync" /\ Synchronized(last.pre)) =>
        /\ fs = last.pre
        /\ \A i \in 1..Len(last.ops) :
              last.ops[i].fn = "makedirs" /\ last.ops[i].touched = {}
C10_Witness ==
    /\ last.kind = "sync"
    /\ Synchronized(last.pre)
    /\ Cardinality(Regular(last.pre, 1)) = 2
    /\ Ignored(last.pre, 1) # Ignored(last.pre, 2)
    /\ Len(last.ops) = 2
    /\ fs = last.pre

\* C11: if either root directory does not exist at startup, the program
\* reports it and does nothing else: no initial_sync pass is run, no observer
\* is started, no notification is handled and neither tree is changed.
C11_StartupRefusal ==
    (pc # "main" /\ \E r \in 1..2 : ~Exists(boot.start, r, <<>>)) =>
        /\ pc = "refused"
        /\ sup.printed = <<"do not exist">>
        /\ boot.passes = <<>>
        /\ sup.obs = <<"new", "new">>
        /\ last = NoLast
        /\ queue = <<(<<>>), (<<>>)>>
        /\ fs = boot.start
C11_Witness ==
    /\ pc = "refused"
    /\ Exists(boot.start, 1, <<>>)
    /\ ~Exists(boot.start, 2, <<>>)
    /\ Cardinality(DOMAIN fs[1]) > 1
    /\ sup.printed = <<"do not exist">>

\* C12: initial_sync runs once per direction, dir1 -> dir2 first and
\* dir2 -> dir1 second; both passes are over before either observer is
\* started, and no notification is queued, dispatched or handled while a pass
\* is still to run.
PastStartup ==
    pc \in {"start1", "start2", "watching", "stop1", "stop2", "join1", "join2", "returned"}
C12_StartupOrdering ==
    /\ boot.passes \in {<<>>, <<1>>, <<1, 2>>}
    /\ PastStartup => boot.passes = <<1, 2>>
    /\ (\E r \in 1..2 : sup.obs[r] # "new") => boot.passes = <<1, 2>>
    /\ last.kind = "event" => boot.passes = <<1, 2>>
    /\ pc \in {"main", "sync1", "sync2"} =>
          /\ sup.obs = <<"new", "new">>
          /\ sup.busy = <<NoEvent, NoEvent>>
          /\ queue = <<(<<>>), (<<>>)>>
          /\ last.kind \in {"none", "sync"}
C12_Witness ==
    /\ boot.passes = <<1, 2>>
    /\ sup.obs = <<"running", "running">>
    /\ last.kind = "event"
    /\ last.ops # <<>>

\* C13: with both observers running the main thread stays in its loop until
\* the interrupt; it then stops both observers and returns only when both
\* threads have ended, and a thread ends only when no handler run is in
\* flight on it: a run in flight at the interrupt is completed, not cut off.
ShuttingDown == pc \in {"stop1", "stop2", "join1", "join2", "returned"}
C13_OrderedShutdown ==
    /\ pc = "watching" => (~sup.interrupted /\ sup.obs = <<"running", "running">>)
    /\ ShuttingDown => sup.interrupted
    /\ pc \in {"stop2", "join1", "join2", "returned"} => sup.obs[1] # "running"
    /\ pc \in {"join1", "join2", "returned"} => sup.obs[2] # "running"
    /\ pc \in {"join2", "returned"} => sup.obs[1] = "dead"
    /\ pc = "returned" => sup.obs = <<"dead", "dead">>
    /\ \A r \in 1..2 : sup.obs[r] = "dead" => ~InFlight(r)
C13_Witness ==
    /\ pc = "returned"
    /\ sup.cut[1]
    /\ last.kind = "event"
    /\ last.root = 1
    /\ Len(last.ops) = 2
    /\ last.ops[2].completed
    /\ sup.busy = <<NoEvent, NoEvent>>

\* C14: every call the handler makes for an event is made on the root
\* opposite to the one the event came from, whatever the two root paths are.
C14_MirrorOpposite ==
    last.kind = "event" =>
        /\ MirrorRoot(roots, last.root, last.ev.path) = Other(last.root)
        /\ \A i \in 1..Len(last.ops) : last.ops[i].root = Other(last.root)

\* C15: when every external write is made under dir1, a notification of dir2
\* is the echo of a mirrored write, and handling it leaves dir1 as it is: the
\* copy back writes what the file under dir1 already holds.
C15_EchoKeepsContent ==
    (Handling({"created", "modified"}) /\ Origin = 2) => fs[1] = last.pre[1]

\* C16: a pass of initial_sync calls copy2 for a non-ignored file of the
\* source exactly when the mirrored file is absent or strictly older than it,
\* and for no ignored file; a mirrored file that is as new as the source
\* file, or newer, is left as it was.
SourceOfPass == last.root
DestOfPass == Other(last.root)
CopyCalled(p) ==
    \E i \in 1..Len(last.ops) :
        /\ IsCall(last.ops[i], "copy2", DestOfPass, p)
        /\ last.ops[i].src = p
C16_CopyRule ==
    last.kind = "sync" =>
        /\ \A p \in Regular(last.pre, SourceOfPass) :
              /\ CopyCalled(p) <=>
                    \/ ~Exists(last.pre, DestOfPass, p)
                    \/ last.pre[SourceOfPass][p].mtime > last.pre[DestOfPass][p].mtime
              /\ (/\ IsFile(last.pre, DestOfPass, p)
                  /\ last.pre[DestOfPass][p].mtime >= last.pre[SourceOfPass][p].mtime)
                    => fs[DestOfPass][p] = last.pre[DestOfPass][p]
        /\ \A p \in Ignored(last.pre, SourceOfPass) : ~CopyCalled(p)
C16_Witness ==
    /\ last.kind = "sync"
    /\ \E p \in Regular(last.pre, SourceOfPass) :
          /\ IsFile(last.pre, DestOfPass, p)
          /\ last.pre[DestOfPass][p].mtime = last.pre[SourceOfPass][p].mtime
          /\ last.pre[DestOfPass][p].data # last.pre[SourceOfPass][p].data
          /\ fs[DestOfPass][p] = last.pre[DestOfPass][p]
    /\ \E q \in Regular(last.pre, SourceOfPass) :
          /\ IsFile(last.pre, DestOfPass, q)
          /\ last.pre[SourceOfPass][q].mtime > last.pre[DestOfPass][q].mtime
          /\ CopyCalled(q)
          /\ fs[DestOfPass][q] = last.pre[SourceOfPass][q]

\* C17: after a pass of initial_sync in which no call exhausted its retries,
\* every directory and every non-ignored file under dest has its counterpart
\* under source, and the dest root is still there.
C17_OrphanRemoval ==
    (last.kind = "sync" /\ ~Exhausted(last.ops)) =>
        /\ \A p \in DOMAIN fs[DestOfPass] :
              (IsDir(fs, DestOfPass, p) \/ ~should_ignore(p)) => Exists(fs, SourceOfPass, p)
        /\ IsDir(fs, DestOfPass, <<>>)
C17_Witness ==
    /\ last.kind = "sync"
    /\ ~Exhausted(last.ops)
    /\ DOMAIN last.pre[SourceOfPass] = {<<>>}
    /\ IsDir(last.pre, DestOfPass, <<"x">>)
    /\ IsFile(last.pre, DestOfPass, <<"x", "a.txt">>)
    /\ IsFile(last.pre, DestOfPass, <<"a.txt">>)
    /\ IsFile(last.pre, DestOfPass, <<"b.tmp">>)
    /\ DOMAIN fs[DestOfPass] = {<<>>, <<"b.tmp">>}

\* C18: a handler run in which a call exhausts its retries ends like any
\* other: the program keeps watching, the notification is taken off its
\* queue and not put back, the failed call was tried max_attempts times and
\* changed nothing, and nothing is queued for it; what is queued for the
\* opposite root are the notifications of the calls that completed.
HandlerStep == pc = "watching" /\ budget' = budget
Abandoned(op) ==
    /\ op.calls = DEFAULT_MAX_ATTEMPTS
    /\ op.errors = 1
    /\ op.ret = "False"
    /\ op.touched = {}
HandlerIsolated ==
    /\ last'.kind = "event"
    /\ pc' = "watching"
    /\ queue'[last'.root] = Tail(queue[last'.root])
    /\ SubSeq(queue'[Other(last'.root)], 1, Len(queue[Other(last'.root)]))
          = queue[Other(last'.root)]
    /\ \A i \in 1..Len(last'.ops) : ~last'.ops[i].completed => Abandoned(last'.ops[i])
    /\ (\A i \in 1..Len(last'.ops) : ~last'.ops[i].completed) =>
          /\ fs' = fs
          /\ queue'[Other(last'.root)] = queue[Other(last'.root)]
C18_FailureIsolation == [][HandlerStep => HandlerIsolated]_vars
C18_Witness ==
    /\ last.kind = "event"
    /\ pc = "watching"
    /\ Len(last.ops) = 2
    /\ last.ops[1].completed
    /\ ~last.ops[2].completed
    /\ Abandoned(last.ops[2])
    /\ IsFile(last.pre, last.root, last.ev.path)
    /\ fs = last.pre
    /\ queue = <<(<<>>), (<<>>)>>

\* C19: when no call of the two startup passes exhausted its retries, the
\* non-ignored files of dir2 after the first pass, and of both roots after
\* the second, are the paths dir1 held at startup: a file only dir1 had is
\* copied to dir2, a file only dir2 had is removed by the first pass.
AfterFirstPass == last.kind = "sync" /\ last.root = 1
C19_Asymmetric ==
    /\ (AfterFirstPass /\ ~boot.failed) => Regular(fs, 2) = Regular(boot.start, 1)
    /\ (StartupDone /\ ~boot.failed) =>
          \A r \in 1..2 : Regular(fs, r) = Regular(boot.start, 1)
C19_Witness ==
    /\ StartupDone
    /\ ~boot.failed
    /\ \E p \in Regular(boot.start, 1) \ Regular(boot.start, 2) :
          IsFile(fs, 2, p) /\ fs[2][p] = boot.start[1][p]
    /\ \E q \in Regular(boot.start, 2) \ Regular(boot.start, 1) :
          ~Exists(fs, 1, q) /\ ~Exists(fs, 2, q)

\* C20: after a startup without failures and one external delete or rename
\* under dir1, handling its notification changes dir2 by at most one call,
\* handling the echo from dir2 makes no call at all and queues nothing, and
\* from some point on no notification is pending.
Mutating(ops) == {i \in 1..Len(ops) : ops[i].touched # {}}
C20_Step ==
    (last.kind = "event" /\ ~boot.failed) =>
        /\ Origin = 1 =>
              /\ Cardinality(Mutating(last.ops)) <= 1
              /\ \A i \in 1..Len(last.ops) : last.ops[i].root = 2
              /\ fs[1] = last.pre[1]
        /\ Origin = 2 =>
              /\ last.ev.type \in {"deleted", "moved"}
              /\ last.ops = <<>>
              /\ fs = last.pre
              /\ Quiet
====
